---- MODULE Spec2Model ----
(***************************************************************************)
(* Model of the "days since last incident" scripts:                        *)
(*   scripts/check_incident_counter.py  (daily check, Slack message)       *)
(*   scripts/reset_counter.py           (report an incident)               *)
(*   scripts/incident_utils.py          (shared helpers)                   *)
(*                                                                         *)
(* Strings that the code compares or parses (the incident dates) are       *)
(* sequences of ASCII codes, so that sorted(key=x['date']) is the string   *)
(* order and dateutil's parse is a real conversion.  Calendar dates are    *)
(* proleptic Gregorian ordinals, as datetime.date subtracts them.          *)
(***************************************************************************)
EXTENDS Integers, Sequences, FiniteSets, TLC

VARIABLES last_incident_json, today, run, call

vars == <<last_incident_json, today, run, call>>

----------------------------------------------------------------------------
(* Bounds of the model *)

\* the first day of the model: date(2024, 1, 1).toordinal()
Day0 == 738886
\* the clock stops MaxDays days after Day0
MaxDays == 40
\* days between two runs of the scheduled job
TickDays == 10
\* reset_counter.py is not run once the log holds MaxLog records
MaxLog == 3
\* largest streak handed to the message functions called on their own
MaxStreak == 160
\* longest log handed to the metric functions called on their own
MaxCallLog == 3

----------------------------------------------------------------------------
(* Python values *)

Max(a, b) == IF a >= b THEN a ELSE b

\* how a call ends: a returned value, sys.exit(1), or an uncaught ValueError
Return(v) == [how |-> "return", val |-> v]
SystemExit == [how |-> "SystemExit", val |-> 1]
RaiseValueError == [how |-> "ValueError", val |-> 1]

\* str < str: lexicographic on the code points
RECURSIVE StrLess(_, _)
StrLess(a, b) ==
    IF a = <<>> THEN b # <<>>
    ELSE IF b = <<>> THEN FALSE
    ELSE IF Head(a) # Head(b) THEN Head(a) < Head(b)
    ELSE StrLess(Tail(a), Tail(b))

Dash == 45
Digit(n) == 48 + n
IsDigit(c) == c \in 48..57

----------------------------------------------------------------------------
(* datetime.date *)

IsLeap(y) == (y % 4 = 0) /\ ((y % 100 # 0) \/ (y % 400 = 0))

DaysInMonth(y, m) ==
    IF m = 2 THEN (IF IsLeap(y) THEN 29 ELSE 28)
    ELSE IF m \in {4, 6, 9, 11} THEN 30 ELSE 31

RECURSIVE DaysBeforeMonth(_, _)
DaysBeforeMonth(y, m) ==
    IF m = 1 THEN 0 ELSE DaysBeforeMonth(y, m - 1) + DaysInMonth(y, m - 1)

DaysBeforeYear(y) ==
    (y - 1) * 365 + ((y - 1) \div 4) - ((y - 1) \div 100) + ((y - 1) \div 400)

\* date(y, m, d).toordinal()
ToOrdinal(y, m, d) == DaysBeforeYear(y) + DaysBeforeMonth(y, m) + d

\* date.fromordinal(n), as <<year, month, day>>
FromOrdinal(n) ==
    LET y == CHOOSE yy \in (n \div 366)..((n \div 365) + 1) :
                 DaysBeforeYear(yy) < n /\ n <= DaysBeforeYear(yy + 1)
        r == n - DaysBeforeYear(y)
        m == CHOOSE mm \in 1..12 :
                 DaysBeforeMonth(y, mm) < r
                 /\ r <= DaysBeforeMonth(y, mm) + DaysInMonth(y, mm)
    IN  <<y, m, r - DaysBeforeMonth(y, m)>>

\* str(date): "YYYY-MM-DD", zero padded
IsoFormat(n) ==
    LET ymd == FromOrdinal(n)
        y == ymd[1]
        m == ymd[2]
        d == ymd[3]
    IN  << Digit((y \div 1000) % 10), Digit((y \div 100) % 10),
           Digit((y \div 10) % 10), Digit(y % 10), Dash,
           Digit(m \div 10), Digit(m % 10), Dash,
           Digit(d \div 10), Digit(d % 10) >>

\* dateutil.parser.parse(s).date() on the strings of this model: a
\* "YYYY-MM-DD" string naming a day of the calendar gives that day, any other
\* string of the model (the empty string, text without a date) raises
\* ValueError.
ParseOk(n) == [ok |-> TRUE, ordinal |-> n]
ParseError == [ok |-> FALSE, ordinal |-> 0]

parse(s) ==
    IF /\ Len(s) = 10
       /\ s[5] = Dash /\ s[8] = Dash
       /\ \A i \in {1, 2, 3, 4, 6, 7, 9, 10} : IsDigit(s[i])
    THEN LET y == (s[1] - 48) * 1000 + (s[2] - 48) * 100
                  + (s[3] - 48) * 10 + (s[4] - 48)
             m == (s[6] - 48) * 10 + (s[7] - 48)
             d == (s[9] - 48) * 10 + (s[10] - 48)
         IN  IF y >= 1 /\ m \in 1..12 /\ d >= 1 /\ d <= DaysInMonth(y, m)
             THEN ParseOk(ToOrdinal(y, m, d))
             ELSE ParseError
    ELSE ParseError

----------------------------------------------------------------------------
(* The incident records *)

\* new_incident of reset_counter.main, with the arguments' defaults
Incident(date_str) ==
    [date |-> date_str, description |-> "", postmortem_link |-> "",
     severity |-> ""]

\* sorted(incidents, key=lambda x: x['date']): stable, ascending
RECURSIVE InsertAsc(_, _)
InsertAsc(x, s) ==
    IF s = <<>> THEN <<x>>
    ELSE IF StrLess(x.date, Head(s).date) THEN <<x>> \o s
    ELSE <<Head(s)>> \o InsertAsc(x, Tail(s))

RECURSIVE SortedAsc(_)
SortedAsc(incidents) ==
    IF incidents = <<>> THEN <<>>
    ELSE InsertAsc(incidents[Len(incidents)],
                   SortedAsc(SubSeq(incidents, 1, Len(incidents) - 1)))

\* sorted(incidents, key=lambda x: x['date'], reverse=True): stable, descending
RECURSIVE InsertDesc(_, _)
InsertDesc(x, s) ==
    IF s = <<>> THEN <<x>>
    ELSE IF StrLess(Head(s).date, x.date) THEN <<x>> \o s
    ELSE <<Head(s)>> \o InsertDesc(x, Tail(s))

RECURSIVE SortedDesc(_)
SortedDesc(incidents) ==
    IF incidents = <<>> THEN <<>>
    ELSE InsertDesc(incidents[Len(incidents)],
                    SortedDesc(SubSeq(incidents, 1, Len(incidents) - 1)))

\* Python's None for the date string, and a date string
NoDate == [none |-> TRUE, str |-> <<>>]
SomeDate(s) == [none |-> FALSE, str |-> s]

\* get_last_incident_date (the three scripts define it alike)
get_last_incident_date(incidents) ==
    IF incidents = <<>> THEN NoDate
    ELSE SomeDate(SortedDesc(incidents)[1].date)

\* `not last_incident_date_str`: None and the empty string are both falsy
Falsy(d) == d.none \/ d.str = <<>>

----------------------------------------------------------------------------
(* Metric functions *)

\* a slip: the oldest incident is taken for the last one (reverse=True lost)
utils_calculate_days_since_oldest(incidents, reference_date, t) ==
    IF incidents = <<>> \/ SortedAsc(incidents)[1].date = <<>> THEN Return(0)
    ELSE LET p == parse(SortedAsc(incidents)[1].date)
             ref_date == IF reference_date.given THEN reference_date.date
                         ELSE t
         IN  IF p.ok THEN Return(ref_date - p.ordinal) ELSE SystemExit

\* incident_utils.calculate_days_since_incident(incidents, reference_date);
\* reference_date is [given |-> BOOLEAN, date |-> ordinal], t is date.today()
utils_calculate_days_since_incident(incidents, reference_date, t) ==
    LET last_incident_date_str == get_last_incident_date(incidents)
    IN  IF Falsy(last_incident_date_str) THEN Return(0)
        ELSE LET p == parse(last_incident_date_str.str)
                 ref_date == IF reference_date.given THEN reference_date.date
                             ELSE t
             IN  IF p.ok THEN Return(ref_date - p.ordinal) ELSE SystemExit

\* check_incident_counter.calculate_days_since_incident(incidents)
check_calculate_days_since_incident(incidents, t) ==
    LET last_incident_date_str == get_last_incident_date(incidents)
    IN  IF Falsy(last_incident_date_str) THEN Return(0)
        ELSE LET p == parse(last_incident_date_str.str)
             IN  IF p.ok THEN Return(t - p.ordinal) ELSE SystemExit

\* a slip: the oldest incident is taken for the last one
reset_calculate_days_since_oldest(incidents, t) ==
    IF incidents = <<>> \/ SortedAsc(incidents)[1].date = <<>> THEN Return(0)
    ELSE LET p == parse(SortedAsc(incidents)[1].date)
         IN  IF p.ok THEN Return(t - p.ordinal) ELSE Return(0)

\* reset_counter.calculate_days_since_incident(incidents): the except branch
\* returns 0
reset_calculate_days_since_incident(incidents, t) ==
    LET last_incident_date_str == get_last_incident_date(incidents)
    IN  IF Falsy(last_incident_date_str) THEN Return(0)
        ELSE LET p == parse(last_incident_date_str.str)
             IN  IF p.ok THEN Return(t - p.ordinal) ELSE Return(0)

\* the for loop of calculate_record_streak from index i (1-based) on; an
\* unparseable date raises ValueError out of the function
RECURSIVE StreakLoop(_, _, _)
StreakLoop(sorted_incidents, i, max_streak) ==
    IF i > Len(sorted_incidents) - 1 THEN Return(max_streak)
    ELSE LET start_date == parse(sorted_incidents[i].date)
             end_date == parse(sorted_incidents[i + 1].date)
         IN  IF ~start_date.ok \/ ~end_date.ok THEN RaiseValueError
             ELSE StreakLoop(sorted_incidents, i + 1,
                             Max(max_streak,
                                 end_date.ordinal - start_date.ordinal))

\* a slip: the current streak is left out of the record
calculate_record_streak_gaps_only(incidents, t) ==
    IF Len(incidents) < 2
    THEN check_calculate_days_since_incident(incidents, t)
    ELSE StreakLoop(SortedAsc(incidents), 1, 0)

\* a slip: the gaps are taken in insertion order, the list is not sorted
calculate_record_streak_unsorted(incidents, t) ==
    IF Len(incidents) < 2
    THEN check_calculate_days_since_incident(incidents, t)
    ELSE LET loop == StreakLoop(incidents, 1, 0)
             current_streak == check_calculate_days_since_incident(incidents, t)
         IN  IF loop.how # "return" THEN loop
             ELSE IF current_streak.how # "return" THEN current_streak
             ELSE Return(Max(loop.val, current_streak.val))

\* a slip: range(len(sorted_incidents) - 2), the last gap is not looked at
calculate_record_streak_skip_last_gap(incidents, t) ==
    IF Len(incidents) < 2
    THEN check_calculate_days_since_incident(incidents, t)
    ELSE LET sorted_incidents == SortedAsc(incidents)
             loop == StreakLoop(SubSeq(sorted_incidents, 1,
                                       Len(sorted_incidents) - 1), 1, 0)
             current_streak == check_calculate_days_since_incident(incidents, t)
         IN  IF loop.how # "return" THEN loop
             ELSE IF current_streak.how # "return" THEN current_streak
             ELSE Return(Max(loop.val, current_streak.val))

\* check_incident_counter.calculate_record_streak(incidents)
calculate_record_streak(incidents, t) ==
    IF Len(incidents) < 2
    THEN check_calculate_days_since_incident(incidents, t)
    ELSE LET sorted_incidents == SortedAsc(incidents)
             loop == StreakLoop(sorted_incidents, 1, 0)
             current_streak == check_calculate_days_since_incident(incidents, t)
         IN  IF loop.how # "return" THEN loop
             ELSE IF current_streak.how # "return" THEN current_streak
             ELSE Return(Max(loop.val, current_streak.val))

----------------------------------------------------------------------------
(* Message functions of check_incident_counter.py *)

\* a milestone text "<emoji> <days> Days! <tail> <emoji>", or Python's None
NoMilestone == [none |-> TRUE, emoji |-> "", days |-> 0, tail |-> ""]
Milestone(e, d, t) == [none |-> FALSE, emoji |-> e, days |-> d, tail |-> t]

\* the dict `milestones` of get_milestone_message
milestones ==
    (10 :> Milestone("party", 10, "Team shoutout time!"))
    @@ (30 :> Milestone("coffee", 30, "Virtual coffee vouchers for everyone!"))
    @@ (50 :> Milestone("plate", 50, "Team lunch celebration!"))
    @@ (100 :> Milestone("gift", 100, "Custom swag incoming!"))

\* a slip: the recurring rule without its `days > 100`
get_milestone_message_any_multiple(days) ==
    IF days \in DOMAIN milestones THEN milestones[days]
    ELSE IF days % 50 = 0
         THEN Milestone("trophy", days, "Amazing streak!")
         ELSE NoMilestone

\* get_milestone_message(days)
get_milestone_message(days) ==
    IF days \in DOMAIN milestones THEN milestones[days]
    ELSE IF days > 100 /\ days % 50 = 0
         THEN Milestone("trophy", days, "Amazing streak!")
         ELSE NoMilestone

\* a slip: `<=` for `<` in the second branch
status_tier_off_by_one(days_since) ==
    IF days_since = 0 THEN [emoji |-> "cycle", status |-> "Starting fresh"]
    ELSE IF days_since <= 10
         THEN [emoji |-> "seedling", status |-> "Building momentum"]
    ELSE IF days_since < 30
         THEN [emoji |-> "herb", status |-> "Growing strong"]
    ELSE IF days_since < 50
         THEN [emoji |-> "tree", status |-> "Solid foundation"]
    ELSE [emoji |-> "trophy", status |-> "Excellence achieved"]

\* the if/elif chain of format_slack_message that picks emoji and status
status_tier(days_since) ==
    IF days_since = 0 THEN [emoji |-> "cycle", status |-> "Starting fresh"]
    ELSE IF days_since < 10
         THEN [emoji |-> "seedling", status |-> "Building momentum"]
    ELSE IF days_since < 30
         THEN [emoji |-> "herb", status |-> "Growing strong"]
    ELSE IF days_since < 50
         THEN [emoji |-> "tree", status |-> "Solid foundation"]
    ELSE [emoji |-> "trophy", status |-> "Excellence achieved"]

\* 'None recorded'
NoneRecorded == <<78, 111, 110, 101, 32, 114, 101, 99, 111, 114, 100, 101, 100>>

\* a slip: `days_since > 0` left out
is_new_record_with_zero(days_since, record_streak) ==
    days_since = record_streak

\* is_new_record of format_slack_message
is_new_record(days_since, record_streak) ==
    days_since > 0 /\ days_since = record_streak

\* the two blocks every message starts with
BaseBlocks(incidents, days_since, record_streak) ==
    LET last_incident_date == get_last_incident_date(incidents)
        tier == status_tier(days_since)
    IN  << [type |-> "header",
            text |-> [emoji |-> tier.emoji, label |-> "Days Without Incident"]],
           [type |-> "section",
            fields |-> <<
              [label |-> "*Current Streak:*", days |-> days_since],
              [label |-> "*Status:*", status |-> tier.status],
              [label |-> "*Last Incident:*",
               date |-> IF Falsy(last_incident_date) THEN NoneRecorded
                        ELSE last_incident_date.str],
              [label |-> "*Record Streak:*", days |-> record_streak] >>] >>

NewRecordBlock ==
    [type |-> "section",
     text |-> [label |-> "NEW RECORD!",
               body |-> "This is now the longest streak in company history!"]]

MilestoneBlock(milestone_msg) ==
    [type |-> "section",
     text |-> [label |-> "MILESTONE REACHED!", body |-> milestone_msg]]

FooterBlock(incidents) ==
    [type |-> "context",
     elements |-> << [label |-> "Total incidents recorded:",
                      total |-> Len(incidents)] >>]

\* a slip: the milestone section appended before the new-record section
format_slack_message_milestone_first(incidents, days_since, record_streak) ==
    LET milestone_msg == get_milestone_message(days_since)
    IN  [text |-> [label |-> "Days Without Incident:", days |-> days_since],
         blocks |->
            BaseBlocks(incidents, days_since, record_streak)
            \o (IF ~milestone_msg.none
                THEN <<MilestoneBlock(milestone_msg)>> ELSE <<>>)
            \o (IF is_new_record(days_since, record_streak)
                THEN <<NewRecordBlock>> ELSE <<>>)
            \o (IF days_since > 0 THEN <<FooterBlock(incidents)>> ELSE <<>>)]

\* format_slack_message(data, days_since, record_streak), incidents being
\* data['incidents']
format_slack_message(incidents, days_since, record_streak) ==
    LET milestone_msg == get_milestone_message(days_since)
    IN  [text |-> [label |-> "Days Without Incident:", days |-> days_since],
         blocks |->
            BaseBlocks(incidents, days_since, record_streak)
            \o (IF is_new_record(days_since, record_streak)
                THEN <<NewRecordBlock>> ELSE <<>>)
            \o (IF ~milestone_msg.none
                THEN <<MilestoneBlock(milestone_msg)>> ELSE <<>>)
            \o (IF days_since > 0 THEN <<FooterBlock(incidents)>> ELSE <<>>)]

\* no message was built
NoMessage == [text |-> [label |-> "", days |-> 0], blocks |-> <<>>]

----------------------------------------------------------------------------
(* Message function of reset_counter.py *)

\* format_incident_notification(incidents, days_lost, new_incident)
format_incident_notification(incidents, days_lost, new_incident) ==
    [text |-> [label |-> "Incident Reported - Counter Reset", days |-> days_lost],
     blocks |->
        << [type |-> "header",
            text |-> [emoji |-> "siren", label |-> "Incident Reported"]],
           [type |-> "section",
            text |-> [label |-> "Our streak has ended", days |-> days_lost]],
           [type |-> "section",
            fields |-> <<
              [label |-> "*Incident Date:*", date |-> new_incident.date],
              [label |-> "*Days Lost:*", days |-> days_lost],
              [label |-> "*Total Incidents:*", total |-> Len(incidents)],
              [label |-> "*Severity:*", severity |-> new_incident.severity] >>] >>
        \o (IF new_incident.description # ""
            THEN << [type |-> "section",
                     text |-> [label |-> "*Description:*",
                               body |-> new_incident.description]] >>
            ELSE <<>>)
        \o (IF new_incident.postmortem_link # ""
            THEN << [type |-> "section",
                     text |-> [label |-> "*Postmortem:*",
                               body |-> new_incident.postmortem_link]] >>
            ELSE <<>>)
        \o << [type |-> "divider"],
              [type |-> "section",
               text |-> [label |-> "*Remember:*",
                         body |-> "Incidents are learning opportunities."]] >>]

----------------------------------------------------------------------------
(* The scripts *)

\* the --date values tried: the default str(date.today()), a day reported
\* late, and two strings that are no date
EmptyStr == <<>>
BadStr == <<98, 97, 100>>
DateArgs(t) == {IsoFormat(t), IsoFormat(t - TickDays), EmptyStr, BadStr}

\* the locals of the last run of a script
\*   stage: the last step of main that completed; a reset run that has saved
\*   the log and is about to call send_slack_message is at "saved"
NoRun ==
    [script |-> "none", exit_code |-> 0, stage |-> "none", incidents |-> <<>>,
     days_since |-> 0, record_streak |-> 0, days_lost |-> 0,
     message |-> NoMessage, delivery |-> "none"]

\* load_incident_data of reset_counter.py and incident_utils.py: a missing
\* file is an empty history
reset_load_incident_data(f) ==
    IF f.exists THEN f.incidents ELSE <<>>

\* save_incident_data(data)
save_incident_data(incidents) == [exists |-> TRUE, incidents |-> incidents]

\* a slip: days_lost computed after new_incident is appended
main_days_lost_after_append(incidents, new_incident, t) ==
    reset_calculate_days_since_incident(Append(incidents, new_incident), t).val

\* days_lost of reset_counter.main: computed on the loaded list, before
\* new_incident is appended
main_days_lost(incidents, new_incident, t) ==
    reset_calculate_days_since_incident(incidents, t).val

\* check_incident_counter.main
\*   slack_webhook: SLACK_WEBHOOK_URL is set; test_mode: TEST_MODE is true;
\*   send_ok: the webhook answers without a RequestException
CheckMain(slack_webhook, test_mode, send_ok) ==
    LET f == last_incident_json
        incidents == f.incidents
        ds == check_calculate_days_since_incident(incidents, today)
        rs == calculate_record_streak(incidents, today)
        message == format_slack_message(incidents, ds.val, rs.val)
        abort(stage) == [NoRun EXCEPT !.script = "check", !.exit_code = 1,
                                      !.stage = stage]
    IN  /\ run.stage # "saved"
        /\ run' =
             IF ~slack_webhook /\ ~test_mode THEN abort("start")
             ELSE IF ~f.exists THEN abort("env")
             ELSE IF ds.how # "return"
                  THEN [abort("load") EXCEPT !.incidents = incidents]
             ELSE IF rs.how # "return"
                  THEN [abort("days_since") EXCEPT !.incidents = incidents,
                                                   !.days_since = ds.val]
             ELSE [script |-> "check",
                   exit_code |-> IF test_mode \/ send_ok THEN 0 ELSE 1,
                   stage |-> "done",
                   incidents |-> incidents,
                   days_since |-> ds.val,
                   record_streak |-> rs.val,
                   days_lost |-> 0,
                   message |-> message,
                   delivery |-> IF test_mode THEN "test_mode"
                                ELSE IF send_ok THEN "sent" ELSE "failed"]
        /\ UNCHANGED <<last_incident_json, today, call>>

\* a slip: the notification is handed to the transport before the log is
\* saved
ResetMain_notify_before_save(date_arg, notify, slack_webhook) ==
    LET loaded == reset_load_incident_data(last_incident_json)
        new_incident == Incident(date_arg)
        days_lost == main_days_lost(loaded, new_incident, today)
        incidents == Append(loaded, new_incident)
        message == format_incident_notification(incidents, days_lost,
                                                new_incident)
    IN  /\ run.stage # "saved"
        /\ Len(loaded) < MaxLog
        /\ last_incident_json' = IF notify /\ slack_webhook
                                 THEN last_incident_json
                                 ELSE save_incident_data(incidents)
        /\ run' = [script |-> "reset",
                   exit_code |-> 0,
                   stage |-> IF notify /\ slack_webhook THEN "saved" ELSE "done",
                   incidents |-> incidents,
                   days_since |-> 0,
                   record_streak |-> 0,
                   days_lost |-> days_lost,
                   message |-> IF notify /\ slack_webhook THEN message
                               ELSE NoMessage,
                   delivery |-> IF ~notify THEN "not_requested"
                                ELSE IF ~slack_webhook THEN "skipped"
                                ELSE "pending"]
        /\ UNCHANGED <<today, call>>

\* reset_counter.main up to the call of send_slack_message: lines 145-191,
\* and to its end when no notification is sent
\*   date_arg: --date; notify: --notify; slack_webhook: SLACK_WEBHOOK_URL is
\*   set
ResetMain(date_arg, notify, slack_webhook) ==
    LET loaded == reset_load_incident_data(last_incident_json)
        new_incident == Incident(date_arg)
        days_lost == main_days_lost(loaded, new_incident, today)
        incidents == Append(loaded, new_incident)
        message == format_incident_notification(incidents, days_lost,
                                                new_incident)
    IN  /\ run.stage # "saved"
        /\ Len(loaded) < MaxLog
        /\ last_incident_json' = save_incident_data(incidents)
        /\ run' = [script |-> "reset",
                   exit_code |-> 0,
                   stage |-> IF notify /\ slack_webhook THEN "saved" ELSE "done",
                   incidents |-> incidents,
                   days_since |-> 0,
                   record_streak |-> 0,
                   days_lost |-> days_lost,
                   message |-> IF notify /\ slack_webhook THEN message
                               ELSE NoMessage,
                   delivery |-> IF ~notify THEN "not_requested"
                                ELSE IF ~slack_webhook THEN "skipped"
                                ELSE "pending"]
        /\ UNCHANGED <<today, call>>

\* the end of reset_counter.main: send_slack_message(slack_webhook, message),
\* whose result main drops; the run ends with exit code 0 either way
\*   send_ok: the webhook answers without a RequestException
ResetSend(send_ok) ==
    /\ run.script = "reset" /\ run.stage = "saved"
    /\ run' = [run EXCEPT !.stage = "done",
                          !.delivery = IF send_ok THEN "sent" ELSE "failed"]
    /\ UNCHANGED <<last_incident_json, today, call>>

\* a day on which the scheduled job runs again; the previous process is gone.
\* The scripts run one at a time: nothing else starts while a run is under way
Tick ==
    /\ run.stage # "saved"
    /\ today + TickDays <= Day0 + MaxDays
    /\ today' = today + TickDays
    /\ run' = NoRun
    /\ UNCHANGED <<last_incident_json, call>>

\* no function of the scripts has been called on its own
NoCall ==
    [fn |-> "none", incidents |-> <<>>,
     reference_date |-> [given |-> FALSE, date |-> 0],
     days_since |-> 0, record_streak |-> 0,
     ret |-> Return(0), message |-> NoMessage, milestone |-> NoMilestone]

Init ==
    /\ last_incident_json = [exists |-> FALSE, incidents |-> <<>>]
    /\ today = Day0
    /\ run = NoRun
    /\ call = NoCall

Check == \E slack_webhook \in BOOLEAN, test_mode \in BOOLEAN, send_ok \in BOOLEAN :
             CheckMain(slack_webhook, test_mode, send_ok)

Reset == \E date_arg \in DateArgs(today), notify \in BOOLEAN,
            slack_webhook \in BOOLEAN :
             ResetMain(date_arg, notify, slack_webhook)

Send == \E send_ok \in BOOLEAN : ResetSend(send_ok)

Next == Check \/ Reset \/ Send \/ Tick

Spec == Init /\ [][Next]_vars

----------------------------------------------------------------------------
(* The functions called on their own, on arguments drawn at the start *)

\* the days the called functions see as today and as reference_date
CallDays == {Day0, Day0 + TickDays, Day0 + MaxDays}

\* the date strings of the logs handed to the metric functions
CallDates == {IsoFormat(d) : d \in CallDays} \cup {EmptyStr, BadStr}

\* the logs of at most n records over CallDates, in every insertion order
RECURSIVE LogsUpTo(_)
LogsUpTo(n) ==
    IF n = 0 THEN {<<>>}
    ELSE LET shorter == LogsUpTo(n - 1)
         IN  shorter \cup {Append(l, Incident(s)) : l \in shorter, s \in CallDates}

\* arguments for the metric functions
MetricArgs ==
    { [NoCall EXCEPT !.incidents = l, !.reference_date = r] :
        l \in LogsUpTo(MaxCallLog),
        r \in {[given |-> FALSE, date |-> 0]}
              \cup {[given |-> TRUE, date |-> d] : d \in CallDays} }

\* arguments for the message functions
MessageArgs ==
    { [NoCall EXCEPT !.incidents = l, !.days_since = d, !.record_streak = d + e] :
        l \in {<<>>, <<Incident(IsoFormat(Day0))>>},
        d \in (-1)..MaxStreak,
        e \in {0, 1} }

InitCall ==
    /\ last_incident_json = [exists |-> FALSE, incidents |-> <<>>]
    /\ run = NoRun
    /\ \/ today \in CallDays /\ call \in MetricArgs
       \/ today = Day0 /\ call \in MessageArgs

CallDaysSince ==
    /\ call.fn = "none"
    /\ call' = [call EXCEPT
                  !.fn = "calculate_days_since_incident",
                  !.ret = utils_calculate_days_since_incident(
                              call.incidents, call.reference_date, today)]
    /\ UNCHANGED <<last_incident_json, today, run>>

CallRecordStreak ==
    /\ call.fn = "none"
    /\ call' = [call EXCEPT
                  !.fn = "calculate_record_streak",
                  !.ret = calculate_record_streak(call.incidents, today)]
    /\ UNCHANGED <<last_incident_json, today, run>>

CallMilestone ==
    /\ call.fn = "none"
    /\ call' = [call EXCEPT
                  !.fn = "get_milestone_message",
                  !.milestone = get_milestone_message(call.days_since)]
    /\ UNCHANGED <<last_incident_json, today, run>>

CallFormat ==
    /\ call.fn = "none"
    /\ call' = [call EXCEPT
                  !.fn = "format_slack_message",
                  !.message = format_slack_message(
                                  call.incidents, call.days_since,
                                  call.record_streak)]
    /\ UNCHANGED <<last_incident_json, today, run>>

NextCall == CallDaysSince \/ CallRecordStreak \/ CallMilestone \/ CallFormat

SpecCall == InitCall /\ [][NextCall]_vars

----------------------------------------------------------------------------
(* Notions the properties are stated in *)

\* the calendar days of a log's dates, where every date is a calendar date
AllParse(incidents) ==
    \A i \in 1..Len(incidents) : parse(incidents[i].date).ok
ParsedDates(incidents) ==
    {parse(incidents[i].date).ordinal : i \in 1..Len(incidents)}

SetMax(S) == CHOOSE x \in S : \A y \in S : y <= x

\* reference minus the latest incident day; 0 for the empty log
StreakAt(incidents, reference) ==
    IF incidents = <<>> THEN 0 ELSE reference - SetMax(ParsedDates(incidents))

\* the largest gap between two incident days with no incident day between
\* them (0 when all incidents fall on one day)
MaxGap(incidents) ==
    LET S == ParsedDates(incidents)
        adjacent == {p \in S \X S :
                        p[1] < p[2] /\ ~\E w \in S : p[1] < w /\ w < p[2]}
    IN  SetMax({0} \cup {p[2] - p[1] : p \in adjacent})

\* the log a reset run loaded: its list without the record it appended
Loaded(r) == SubSeq(r.incidents, 1, Len(r.incidents) - 1)

----------------------------------------------------------------------------
(* Properties *)

\* C1: in reset_counter.main, days_lost is the days-since value of the log as
\* loaded, before the new record is appended
C1_DaysLostFromLoadedLog ==
    (run.script = "reset")
        => run.days_lost
             = reset_calculate_days_since_incident(Loaded(run), today).val

\* C1 witness: a reset run whose days_lost is positive while the log it saved
\* (with the new record) gives 0
C1_Witness ==
    /\ run.script = "reset"
    /\ run.days_lost > 0
    /\ reset_calculate_days_since_incident(run.incidents, today).val = 0

\* C2: a check run that computed both metrics has record_streak >= days_since
C2_RecordAtLeastCurrent ==
    (run.script = "check" /\ run.stage = "done")
        => run.record_streak >= run.days_since

\* C2 witness: a check run on an unsorted log of three records, with a live
\* streak above 0 and a larger record
C2_Witness ==
    /\ run.script = "check" /\ run.stage = "done"
    /\ Len(run.incidents) = 3
    /\ SortedAsc(run.incidents) # run.incidents
    /\ run.days_since > 0
    /\ run.record_streak > run.days_since

\* C3: calculate_record_streak is the larger of the largest gap between
\* chronologically consecutive incidents and the current streak, and is the
\* current streak for a log of fewer than two records
C3_RecordIsMaxGapOrCurrent ==
    (call.fn = "calculate_record_streak" /\ AllParse(call.incidents))
        => call.ret =
             Return(IF Len(call.incidents) < 2
                    THEN StreakAt(call.incidents, today)
                    ELSE Max(MaxGap(call.incidents),
                             StreakAt(call.incidents, today)))

\* C3 witness: incidents 10 days apart, given latest first, and today 30 days
\* after the later one: the record is 30
C3_Witness ==
    /\ call.fn = "calculate_record_streak"
    /\ Len(call.incidents) = 2
    /\ AllParse(call.incidents)
    /\ parse(call.incidents[1].date).ordinal
         = parse(call.incidents[2].date).ordinal + 10
    /\ today = parse(call.incidents[1].date).ordinal + 30
    /\ call.ret = Return(30)

\* C4: calculate_days_since_incident returns the reference date minus the
\* latest incident day whatever the order of the records, and 0 for the
\* empty log
C4_DaysSinceLatest ==
    (call.fn = "calculate_days_since_incident" /\ AllParse(call.incidents))
        => call.ret =
             Return(StreakAt(call.incidents,
                             IF call.reference_date.given
                             THEN call.reference_date.date ELSE today))

\* C4 witness: three records with the latest one in the middle, a reference
\* date given, and a positive result
C4_Witness ==
    /\ call.fn = "calculate_days_since_incident"
    /\ Len(call.incidents) = 3
    /\ AllParse(call.incidents)
    /\ parse(call.incidents[2].date).ordinal
         > parse(call.incidents[1].date).ordinal
    /\ parse(call.incidents[2].date).ordinal
         > parse(call.incidents[3].date).ordinal
    /\ call.reference_date.given
    /\ call.ret.how = "return" /\ call.ret.val > 0

\* the kinds of block of a message
IsHeader(b) == b.type = "header"
IsFieldGroup(b) ==
    /\ b.type = "section" /\ "fields" \in DOMAIN b
    /\ Len(b.fields) = 4
    /\ b.fields[1].label = "*Current Streak:*"
    /\ b.fields[2].label = "*Status:*"
    /\ b.fields[3].label = "*Last Incident:*"
    /\ b.fields[4].label = "*Record Streak:*"
IsNewRecord(b) ==
    b.type = "section" /\ "text" \in DOMAIN b /\ b.text.label = "NEW RECORD!"
IsMilestone(b) ==
    b.type = "section" /\ "text" \in DOMAIN b
    /\ b.text.label = "MILESTONE REACHED!"
IsFooter(b) == b.type = "context"

\* C5: the new-record section is in the message exactly when days_since > 0
\* and days_since = record_streak; a streak of 0 is never a new record
C5_NewRecordIff ==
    (call.fn = "format_slack_message")
        => ((\E i \in 1..Len(call.message.blocks) :
                 IsNewRecord(call.message.blocks[i]))
            <=> (call.days_since > 0 /\ call.days_since = call.record_streak))

\* C5 witness: streak 0 and record 0, and no new-record section
C5_Witness ==
    /\ call.fn = "format_slack_message"
    /\ call.days_since = 0 /\ call.record_streak = 0
    /\ ~\E i \in 1..Len(call.message.blocks) :
           IsNewRecord(call.message.blocks[i])

\* a streak for which get_milestone_message has a text
HasMilestone(days) ==
    days \in {10, 30, 50, 100} \/ (days > 100 /\ days % 50 = 0)

\* C7: the blocks are the header, the four fields, the new-record section if
\* it is a new record, then the milestone section if there is a milestone,
\* then the footer if days_since > 0, and nothing else
C7_BlockOrder ==
    (call.fn = "format_slack_message")
        => LET b == call.message.blocks
               d == call.days_since
               nr == IF d > 0 /\ d = call.record_streak THEN 1 ELSE 0
               ms == IF HasMilestone(d) THEN 1 ELSE 0
               ft == IF d > 0 THEN 1 ELSE 0
           IN  /\ Len(b) = 2 + nr + ms + ft
               /\ IsHeader(b[1])
               /\ IsFieldGroup(b[2])
               /\ b[2].fields[1].days = d
               /\ b[2].fields[4].days = call.record_streak
               /\ (AllParse(call.incidents)
                     => b[2].fields[3].date
                          = IF call.incidents = <<>> THEN NoneRecorded
                            ELSE IsoFormat(SetMax(ParsedDates(call.incidents))))
               /\ (nr = 1 => IsNewRecord(b[3]))
               /\ (ms = 1 => IsMilestone(b[3 + nr]))
               /\ (ft = 1 => IsFooter(b[3 + nr + ms]))

\* C7 witness: a message with all five blocks
C7_Witness ==
    /\ call.fn = "format_slack_message"
    /\ Len(call.message.blocks) = 5
    /\ IsNewRecord(call.message.blocks[3])
    /\ IsMilestone(call.message.blocks[4])
    /\ IsFooter(call.message.blocks[5])

\* C8: get_milestone_message gives the table's text for a key of the table,
\* else the recurring text for a multiple of 50 above 100, else nothing
C8_MilestoneRule ==
    (call.fn = "get_milestone_message")
        => LET d == call.days_since
               m == call.milestone
           IN  /\ (d \in {10, 30, 50, 100}
                     => ~m.none /\ m.days = d /\ m.emoji # "trophy")
               /\ (d \notin {10, 30, 50, 100} /\ d > 100 /\ d % 50 = 0
                     => m = Milestone("trophy", d, "Amazing streak!"))
               /\ (d \notin {10, 30, 50, 100} /\ ~(d > 100 /\ d % 50 = 0)
                     => m.none)
               /\ (d <= 100 /\ d \notin {10, 30, 50, 100} => m.none)

\* C8 witness: 150 days gives the recurring text
C8_Witness ==
    /\ call.fn = "get_milestone_message"
    /\ call.days_since = 150
    /\ call.milestone = Milestone("trophy", 150, "Amazing streak!")

\* the tiers as a threshold table, ascending by min_days
StatusThresholds ==
    << [min_days |-> 0, unbounded |-> FALSE, max_days |-> 0,
        emoji |-> "cycle", status |-> "Starting fresh"],
       [min_days |-> 1, unbounded |-> FALSE, max_days |-> 9,
        emoji |-> "seedling", status |-> "Building momentum"],
       [min_days |-> 10, unbounded |-> FALSE, max_days |-> 29,
        emoji |-> "herb", status |-> "Growing strong"],
       [min_days |-> 30, unbounded |-> FALSE, max_days |-> 49,
        emoji |-> "tree", status |-> "Solid foundation"],
       [min_days |-> 50, unbounded |-> TRUE, max_days |-> 0,
        emoji |-> "trophy", status |-> "Excellence achieved"] >>

TierMatches(e, days) ==
    e.min_days <= days /\ (e.unbounded \/ days <= e.max_days)

\* C9: for days >= 0 exactly one tier matches, and the message carries the
\* emoji and the label of the first tier that matches
C9_ExactlyOneTier ==
    (call.fn = "format_slack_message" /\ call.days_since >= 0)
        => LET d == call.days_since
               matching == {i \in 1..Len(StatusThresholds) :
                               TierMatches(StatusThresholds[i], d)}
               first == CHOOSE i \in matching : \A j \in matching : i <= j
           IN  /\ Cardinality(matching) = 1
               /\ call.message.blocks[1].text.emoji
                    = StatusThresholds[first].emoji
               /\ call.message.blocks[2].fields[2].status
                    = StatusThresholds[first].status

\* C9 witness: the last day of a bounded tier
C9_Witness ==
    /\ call.fn = "format_slack_message"
    /\ call.days_since = 29
    /\ call.message.blocks[2].fields[2].status = "Growing strong"

\* the last incident day of the log a reset run loaded
LoadedLast(r) == parse(get_last_incident_date(Loaded(r)).str)

\* the record a reset run appended
NewIncident(r) == r.incidents[Len(r.incidents)]

\* C6 as stated: a reset run on a log whose last incident is k days before
\* the new incident's date has days_lost = k and saves one record more
C6_DaysLostToNewDate ==
    (/\ run.script = "reset"
     /\ Loaded(run) # <<>>
     /\ LoadedLast(run).ok
     /\ parse(NewIncident(run).date).ok
     /\ parse(NewIncident(run).date).ordinal >= LoadedLast(run).ordinal)
        => /\ run.days_lost
                = parse(NewIncident(run).date).ordinal - LoadedLast(run).ordinal
           /\ last_incident_json.exists
           /\ Len(last_incident_json.incidents) = Len(Loaded(run)) + 1

\* C6 amended: a reset run on a log whose last incident is k days before the
\* current day has days_lost = k, whatever date the new incident carries, and
\* saves one record more
C6_DaysLostToToday ==
    (/\ run.script = "reset"
     /\ Loaded(run) # <<>>
     /\ LoadedLast(run).ok
     /\ today >= LoadedLast(run).ordinal)
        => /\ run.days_lost = today - LoadedLast(run).ordinal
           /\ last_incident_json.exists
           /\ Len(last_incident_json.incidents) = Len(Loaded(run)) + 1

\* C6 witness: an incident dated today, 20 days after the last one: 20 days
\* lost and two records saved
C6_Witness ==
    /\ run.script = "reset"
    /\ Len(Loaded(run)) = 1
    /\ LoadedLast(run).ok
    /\ NewIncident(run).date = IsoFormat(today)
    /\ today = LoadedLast(run).ordinal + 20
    /\ run.days_lost = 20
    /\ Len(last_incident_json.incidents) = 2

\* C10: a run on a log with a date that is no calendar date aborts: a check
\* run gets no days_since from it, a reset run produces no days_lost and
\* saves nothing
C10_CorruptLogAborts ==
    /\ (run.script = "check" /\ ~AllParse(run.incidents))
          => run.stage \notin {"days_since", "done"}
    /\ (run.script = "reset" /\ ~AllParse(Loaded(run)))
          => run.stage \notin {"saved", "done"}

\* C11: a reset run has saved the log with the new record when it is about
\* to hand the notification to the webhook, and the send, failed or not,
\* leaves the saved log and the run's exit code as they are: only the
\* delivery tells a failure
C11_SavedBeforeSent ==
    [][ /\ (run'.script = "reset" /\ run'.stage = "saved")
             => /\ last_incident_json'.exists
                /\ last_incident_json'.incidents = run'.incidents
                /\ Loaded(run') = reset_load_incident_data(last_incident_json)
        /\ Send
             => /\ last_incident_json' = last_incident_json
                /\ last_incident_json'.exists
                /\ last_incident_json'.incidents = run.incidents
                /\ run'.delivery \in {"sent", "failed"}
                /\ run' = [run EXCEPT !.stage = "done",
                                      !.delivery = run'.delivery]
                /\ run'.exit_code = 0 ]_vars

\* C11 witness: a reset run that ended with a failed delivery, exit code 0,
\* and the saved log holding the old record and the new one
C11_Witness ==
    /\ run.script = "reset" /\ run.stage = "done"
    /\ run.delivery = "failed"
    /\ run.exit_code = 0
    /\ Len(run.incidents) = 2
    /\ last_incident_json = save_incident_data(run.incidents)

\* the record streak of a log on day t
RecordStreakOf(f, t) ==
    calculate_record_streak(reset_load_incident_data(f), t)

\* every date of the log is a calendar date on or before day t
DatedUpTo(f, t) ==
    /\ AllParse(reset_load_incident_data(f))
    /\ \A d \in ParsedDates(reset_load_incident_data(f)) : d <= t

\* C12: from a log whose dates are all on or before the current day, a step
\* that is the day advancing or a reset run with an incident dated the
\* current day (or one that leaves log and day alone) does not lower the
\* record streak
C12_RecordNeverDecreases ==
    [][ (/\ DatedUpTo(last_incident_json, today)
         /\ (last_incident_json' # last_incident_json
               => /\ last_incident_json'.incidents
                       = Append(reset_load_incident_data(last_incident_json),
                                Incident(IsoFormat(today)))
                  /\ today' = today))
            => /\ RecordStreakOf(last_incident_json', today').how = "return"
               /\ RecordStreakOf(last_incident_json', today').val
                    >= RecordStreakOf(last_incident_json, today).val ]_vars

\* C12 witness: after a reset run with an incident dated today on a log of
\* two earlier incidents, the current streak is 0 and the record is the
\* streak the run ended, above 0
C12_Witness ==
    /\ run.script = "reset"
    /\ Len(run.incidents) = 3
    /\ AllParse(run.incidents)
    /\ NewIncident(run).date = IsoFormat(today)
    /\ check_calculate_days_since_incident(run.incidents, today) = Return(0)
    /\ run.days_lost > 0
    /\ RecordStreakOf(last_incident_json, today) = Return(run.days_lost)

====
